---- MODULE Spec2Model ----
(***************************************************************************)
(* State-machine model of src/api/index.py: the Flask routes, the          *)
(* flask-caching store they share, the extraction engine (yt_dlp) and the  *)
(* search provider (YoutubeSearch) as nondeterministic collaborators.      *)
(*                                                                         *)
(* Strings that the code builds or trims (query parameters, cache keys,    *)
(* request paths) are sequences of tokens; a parameter value is a sequence *)
(* of one-character tokens.  Python dicts are functions with string        *)
(* domains, {} is the function with the empty domain, None is the token    *)
(* NoneVal.                                                                *)
(*                                                                         *)
(* Every behaviour exercises one route, chosen in Init (the keys of        *)
(* different routes start with different prefixes, so the routes share no  *)
(* cache entry); two request threads run that route's handler              *)
(* concurrently, interleaved at the cache calls and the engine call.       *)
(*                                                                         *)
(* The helper functions of the module (build_formats_list, to_iso_duration *)
(* and the key construction) are operators; the specifications that        *)
(* exercise them alone draw an input arg in their initial state and apply  *)
(* the function once, leaving its result, or the exception it raised, in   *)
(* out.                                                                    *)
(***************************************************************************)
EXTENDS Integers, Sequences, FiniteSets, TLC

VARIABLES route, now, ticks, cache, pc, loc, resp, hist, arg, out

vars == <<route, now, ticks, cache, pc, loc, resp, hist, arg, out>>

-----------------------------------------------------------------------------
(* Bounds *)

MaxHits == 2
MaxTicks == 2

\* Two request threads.
Procs == {1, 2}

-----------------------------------------------------------------------------
(* Program constants *)

CACHE_DEFAULT_TIMEOUT == 0
STREAM_TIMEOUT == 5 * 3600

NoneVal == "<None>"
EmptyDict == [x \in {} |-> x]

ManualRoutes ==
  {"home", "api_fast_meta", "api_meta", "api_channel", "api_playlist",
   "api_instagram", "api_twitter", "api_tiktok", "api_facebook"}
DecoratedRoutes == {"download"}
UncachedRoutes == {"api_all", "api_audio", "api_video"}
Routes == ManualRoutes \cup DecoratedRoutes \cup UncachedRoutes

SocialRoutes == {"api_instagram", "api_twitter", "api_tiktok", "api_facebook"}
IdRoutes == {"api_channel", "api_playlist"}
SearchRoutes ==
  {"api_fast_meta", "api_all", "api_meta", "download", "api_audio", "api_video"}

\* Routes whose resolution and cache.set sit inside try/except Exception.
GuardedRoutes == {"api_fast_meta"} \cup IdRoutes \cup SocialRoutes

\* Routes that test the cache read with "is not None"; the others test
\* its truthiness ("if cached:", "if data:").
NotNoneRoutes == {"api_fast_meta"}

\* Routes that call extract_info() (the others call the engine directly).
ExtractInfoRoutes == {"api_all", "api_meta", "download", "api_audio", "api_video"}

\* Routes that .strip() their parameters.
StripRoutes == ManualRoutes \cup {"api_all"}

KeyPrefix(r) ==
  CASE r = "home" -> "home"
    [] r = "api_fast_meta" -> "fast_meta"
    [] r = "api_meta" -> "meta"
    [] r = "api_channel" -> "channel"
    [] r = "api_playlist" -> "playlist"
    [] r = "api_instagram" -> "instagram"
    [] r = "api_twitter" -> "twitter"
    [] r = "api_tiktok" -> "tiktok"
    [] r = "api_facebook" -> "facebook"
    [] r = "download" -> "download"
    [] OTHER -> ""

RoutePath(r) ==
  CASE r = "home" -> "/"
    [] r = "api_fast_meta" -> "/api/fast-meta"
    [] r = "api_all" -> "/api/all"
    [] r = "api_meta" -> "/api/meta"
    [] r = "api_channel" -> "/api/channel"
    [] r = "api_playlist" -> "/api/playlist"
    [] r = "api_instagram" -> "/api/instagram"
    [] r = "api_twitter" -> "/api/twitter"
    [] r = "api_tiktok" -> "/api/tiktok"
    [] r = "api_facebook" -> "/api/facebook"
    [] r = "download" -> "/download"
    [] r = "api_audio" -> "/api/audio"
    [] OTHER -> "/api/video"

\* The name of the first identifier parameter a route reads ("" if none).
FirstParam(r) ==
  IF r \in SearchRoutes THEN "search" ELSE IF r \in IdRoutes THEN "id" ELSE ""

\* The name of the second identifier parameter a route reads ("" if none).
SecondParam(r) == IF r = "home" THEN "" ELSE "url"

-----------------------------------------------------------------------------
(* Requests: the query string as written, a sequence of <<name, value>>. *)

Space == " "

\* A parameter the query string does not carry.
Absent == <<"<absent>">>

\* What a client writes for an identifier parameter: nothing, an empty
\* value, a value, a value with leading whitespace.
ArgValues == {Absent, <<>>, <<"a">>, <<Space, "a">>}

Names(args) == {args[i][1] : i \in 1..Len(args)}

\* The query string name=v, or nothing when the parameter is absent.
Arg(name, v) == IF name = "" \/ v = Absent THEN <<>> ELSE <<(<<name, v>>)>>

\* The requests clients send to route r: its identifiers, then the flag.
Requests(r) ==
  {Arg(FirstParam(r), a) \o Arg(SecondParam(r), b) \o Arg("latest", l) :
     a \in ArgValues, b \in ArgValues, l \in {Absent, <<>>}}

\* Identifier values that contain the ':' the keys are joined with.
KeyArgValues == {Absent, <<>>, <<"a">>, <<":">>, <<"a", ":">>}

\* Requests to route r with such identifiers.
KeyRequests(r) ==
  {Arg(FirstParam(r), a) \o Arg(SecondParam(r), b) :
     a \in KeyArgValues, b \in KeyArgValues}

\* 'name' in request.args
HasArg(args, name) == name \in Names(args)

\* request.args.get(name, ''): the first value written for name.
ArgGet(args, name) ==
  IF HasArg(args, name)
  THEN args[CHOOSE i \in 1..Len(args) :
              /\ args[i][1] = name
              /\ \A j \in 1..(i - 1) : args[j][1] # name][2]
  ELSE <<>>

RECURSIVE LStrip(_)
LStrip(s) == IF s # <<>> /\ Head(s) = Space THEN LStrip(Tail(s)) ELSE s

RECURSIVE RStrip(_)
RStrip(s) ==
  IF s # <<>> /\ s[Len(s)] = Space THEN RStrip(SubSeq(s, 1, Len(s) - 1)) ELSE s

\* str.strip()
Strip(s) == RStrip(LStrip(s))

\* Python's "a or b" on strings.
StrOr(a, b) == IF a # <<>> THEN a ELSE b

RECURSIVE QueryString(_)
QueryString(args) ==
  IF args = <<>> THEN <<>>
  ELSE <<args[1][1], "=">> \o args[1][2] \o
       (IF Len(args) > 1 THEN <<"&">> \o QueryString(Tail(args)) ELSE <<>>)

\* request.full_path
FullPath(r, args) == <<RoutePath(r), "?">> \o QueryString(args)

\* The value a handler binds to its first identifier (q, cid, pid, search).
Param1(r, args) ==
  IF FirstParam(r) = "" THEN <<>>
  ELSE IF r \in StripRoutes THEN Strip(ArgGet(args, FirstParam(r)))
  ELSE ArgGet(args, FirstParam(r))

\* The value a handler binds to its url parameter (u, cu, pu, url).
Param2(r, args) ==
  IF SecondParam(r) = "" THEN <<>>
  ELSE IF r \in StripRoutes THEN Strip(ArgGet(args, SecondParam(r)))
  ELSE ArgGet(args, SecondParam(r))

\* The cache key a route builds for a request.
CacheKey(r, args) ==
  LET a == Param1(r, args)
      b == Param2(r, args) IN
  CASE r = "home" -> <<KeyPrefix(r)>>
    [] r \in {"api_fast_meta", "api_meta"} ->
         <<KeyPrefix(r), ":">> \o a \o <<":">> \o b
    [] r \in IdRoutes -> <<KeyPrefix(r), ":">> \o StrOr(a, b)
    [] r \in SocialRoutes -> <<KeyPrefix(r), ":">> \o b
    [] r \in DecoratedRoutes -> <<KeyPrefix(r), ":">> \o FullPath(r, args)
    [] OTHER -> <<>>

-----------------------------------------------------------------------------
(* to_iso_duration: strings are sequences of characters. *)

DigitChars == <<"0", "1", "2", "3", "4", "5", "6", "7", "8", "9">>

IsDigit(c) == \E i \in 1..Len(DigitChars) : DigitChars[i] = c

DigitValue(c) == (CHOOSE i \in 1..Len(DigitChars) : DigitChars[i] = c) - 1

\* str.isdigit(): not empty, and every character a digit.
IsDigits(s) == s # <<>> /\ \A i \in 1..Len(s) : IsDigit(s[i])

\* int(s) of a string of digits.
RECURSIVE IntOf(_)
IntOf(s) ==
  IF s = <<>> THEN 0
  ELSE 10 * IntOf(SubSeq(s, 1, Len(s) - 1)) + DigitValue(s[Len(s)])

\* f"{n}" of a natural number.
RECURSIVE Str(_)
Str(n) ==
  IF n < 10 THEN <<DigitChars[n + 1]>>
  ELSE Str(n \div 10) \o <<DigitChars[(n % 10) + 1]>>

\* s.split(sep)
RECURSIVE Split(_, _)
Split(s, sep) ==
  IF \A i \in 1..Len(s) : s[i] # sep THEN <<s>>
  ELSE LET i == CHOOSE j \in 1..Len(s) :
                  s[j] = sep /\ \A k \in 1..(j - 1) : s[k] # sep IN
       <<SubSeq(s, 1, i - 1)>> \o Split(SubSeq(s, i + 1, Len(s)), sep)

\* What a call leaves when int() raises ValueError.
ValueError == <<"<ValueError>">>

\* int(x) raises for one of the parts: over digits, letters and ':' a part
\* converts exactly when it is a non-empty string of digits.
IntRaises(parts) == \E i \in 1..Len(parts) : ~IsDigits(parts[i])

to_iso_duration(duration_str) ==
  LET parts == IF duration_str # <<>> THEN Split(duration_str, ":") ELSE <<>>
      PT == <<"P", "T">> IN
  IF Len(parts) = 3
  THEN IF IntRaises(parts) THEN ValueError
       ELSE PT \o (IF IntOf(parts[1]) # 0
                   THEN Str(IntOf(parts[1])) \o <<"H">> ELSE <<>>)
               \o Str(IntOf(parts[2])) \o <<"M">>
               \o Str(IntOf(parts[3])) \o <<"S">>
  ELSE IF Len(parts) = 2
  THEN IF IntRaises(parts) THEN ValueError
       ELSE PT \o Str(IntOf(parts[1])) \o <<"M">>
               \o Str(IntOf(parts[2])) \o <<"S">>
  ELSE IF Len(parts) = 1 /\ IsDigits(parts[1])
  THEN PT \o Str(IntOf(parts[1])) \o <<"S">>
  ELSE PT \o <<"0", "S">>

-----------------------------------------------------------------------------
(* Raw metadata the engine can return, and the payloads built from it. *)

FmtVideo == [format_id |-> "f1", url |-> "a", vcodec |-> "h264", acodec |-> "none"]
FmtNoUrl == [format_id |-> "f2", vcodec |-> "h264", acodec |-> "aac"]
FmtProg == [format_id |-> "f3", url |-> "c", vcodec |-> "h264", acodec |-> "aac"]
FmtAudio == [format_id |-> "f4", url |-> "d", vcodec |-> "none", acodec |-> "aac"]
FmtNone == [format_id |-> "f5", url |-> "b", vcodec |-> "none", acodec |-> "none"]

\* A record with a duration (seconds, here as the engine's string) and one
\* without.
Info1 == [id |-> "v1", title |-> "t1", duration |-> <<"6", "3">>,
          formats |-> <<FmtVideo, FmtNoUrl>>]
Info2 == [id |-> "v2", title |-> "t2", formats |-> <<FmtProg, FmtAudio, FmtNone>>]

Infos == {EmptyDict, Info1, Info2}

EngineFaults == {"ERROR: Unsupported URL"}

\* dict.get(k): the value, or None.
Get(d, k) == IF k \in DOMAIN d THEN d[k] ELSE NoneVal

\* dict.get(k, default)
GetOr(d, k, default) == IF k \in DOMAIN d THEN d[k] ELSE default

\* Python truthiness of a dict (or None).
Truthy(v) == DOMAIN v # {}

FormatKind(f) ==
  LET has_v == Get(f, "vcodec") # "none"
      has_a == Get(f, "acodec") # "none" IN
  IF has_v /\ has_a THEN "progressive"
  ELSE IF has_v THEN "video-only"
  ELSE IF has_a THEN "audio-only"
  ELSE NoneVal

RECURSIVE ClassifyFormats(_)
ClassifyFormats(fs) ==
  IF fs = <<>> THEN <<>>
  ELSE LET f == Head(fs)
           url_f == Get(f, "url")
           kind == FormatKind(f)
           rest == ClassifyFormats(Tail(fs)) IN
       IF url_f \in {NoneVal, ""} THEN rest
       ELSE IF kind = NoneVal THEN rest
       ELSE <<[format_id |-> Get(f, "format_id"), kind |-> kind, url |-> url_f]>>
              \o rest

build_formats_list(info) == ClassifyFormats(GetOr(info, "formats", <<>>))

RECURSIVE KeepKinds(_, _)
KeepKinds(fs, kinds) ==
  IF fs = <<>> THEN <<>>
  ELSE (IF Head(fs).kind \in kinds THEN <<Head(fs)>> ELSE <<>>)
         \o KeepKinds(Tail(fs), kinds)

HomeData == [message |-> "YouTube API is alive"]

\* None where the value, when there is one, is a string of characters.
NoneStr == <<NoneVal>>

\* dict.get(k) of a field that holds a string of characters.
GetStr(d, k) == IF k \in DOMAIN d THEN d[k] ELSE NoneStr

\* str(v) of a string or None.
PyStr(v) == IF v = NoneStr THEN <<"N", "o", "n", "e">> ELSE v

\* The payload a route builds from the resolved record.  Of each payload
\* the fields kept are enough to tell the records and the routes apart; the
\* others are further info.get(...) projections of the same record.
Payload(r, info) ==
  CASE r = "api_fast_meta" ->
         [title |-> Get(info, "title"), link |-> Get(info, "webpage_url"),
          duration |-> to_iso_duration(PyStr(GetStr(info, "duration")))]
    [] r = "api_all" ->
         [title |-> Get(info, "title"), duration |-> GetStr(info, "duration"),
          formats |-> build_formats_list(info)]
    [] r = "api_meta" ->
         [metadata |-> [id |-> Get(info, "id"), title |-> Get(info, "title"),
                        duration |-> GetStr(info, "duration")]]
    [] r \in IdRoutes ->
         [id |-> Get(info, "id"), url |-> Get(info, "webpage_url")]
    [] r \in SocialRoutes -> info
    [] r = "download" -> [formats |-> build_formats_list(info)]
    [] r = "api_audio" ->
         [audio_formats |->
            KeepKinds(build_formats_list(info), {"audio-only", "progressive"})]
    [] r = "api_video" ->
         [video_formats |->
            KeepKinds(build_formats_list(info), {"video-only", "progressive"})]
    [] OTHER -> HomeData

\* Hits of the search provider (YoutubeSearch(...).to_dict()).
\* A hit with an M:S duration, one without a duration, one whose duration
\* text is not numeric.
Hit1 == [title |-> "t1", url_suffix |-> "/watch?v=v1",
         duration |-> <<"1", ":", "0", "3">>]
Hit2 == [title |-> "t2", url_suffix |-> "/watch?v=v2"]
Hit3 == [title |-> "t3", url_suffix |-> "/watch?v=v3",
         duration |-> <<"a", ":", "1">>]
SearchHits == {EmptyDict, Hit1, Hit2, Hit3}

\* to_iso_duration(vid.get('duration', ''))
HitDuration(vid) == to_iso_duration(GetOr(vid, "duration", <<>>))

\* The result api_fast_meta builds from a search hit.
FastMetaHit(vid) ==
  [title |-> vid["title"], link |-> vid["url_suffix"],
   duration |-> HitDuration(vid)]

IntErrorMessage == "invalid literal for int() with base 10"

RECURSIVE ListsOf(_, _)
ListsOf(S, n) ==
  IF n = 0 THEN {<<>>}
  ELSE LET shorter == ListsOf(S, n - 1) IN
       shorter \cup
         {Append(s, x) : s \in {t \in shorter : Len(t) = n - 1}, x \in S}

\* What ydl.extract_info("ytsearch:...") can return as data['entries'].
SearchEntries == ListsOf(Infos, MaxHits)

\* What YoutubeSearch(q, max_results=n).to_dict() can return.
YoutubeSearch(max_results) ==
  {h \in ListsOf(SearchHits, MaxHits) : Len(h) <= max_results}

\* The last hit instead of the first.
LastEntry(entries) == entries[Len(entries)]

\* entries[0] / results[0]
FirstEntry(entries) == entries[1]

-----------------------------------------------------------------------------
(* Responses *)

Response(status, body) == [status |-> status, body |-> body, handled |-> TRUE]

\* What the framework answers when an exception leaves the view function.
Unhandled == [status |-> 500, body |-> [html |-> "Internal Server Error"],
              handled |-> FALSE]

NoResp == [status |-> 0, body |-> EmptyDict, handled |-> TRUE]

ErrorBody(msg) == [error |-> msg]

MissingMessage(r) ==
  IF r \in IdRoutes THEN "Provide \"id\" or \"url\""
  ELSE IF r \in SocialRoutes THEN "Provide \"url\""
  ELSE IF r \in StripRoutes THEN "Provide \"search\" or \"url\""
  ELSE "Provide \"url\" or \"search\""

\* not (q or u)
Missing(a, b) == a = <<>> /\ b = <<>>

CacheFaultMessage == "cache backend error"

-----------------------------------------------------------------------------
(* The cache (flask-caching, CACHE_TYPE 'simple'): a map from keys to       *)
(* <value, expiry>.  A timeout of 0 stores expiry 0, "never"; a positive   *)
(* timeout stores time() + timeout; cache.get answers None for a key that  *)
(* is absent or whose expiry has passed, and leaves the entry in place.    *)
(* The pruning of a store that holds more than CACHE_THRESHOLD (500) keys  *)
(* is out of reach of the requests modelled here.                          *)

\* The expiry stored with an entry: 0 is "never".
Expires(timeout) == IF timeout > 0 THEN now + timeout ELSE 0

\* cache.get(k) finds an entry.
Live(k) ==
  /\ k \in DOMAIN cache
  /\ (cache[k].expires = 0 \/ cache[k].expires > now)

\* The entry stored under k, expired or not: <<entry>>, or <<>>.
Stored(k) == IF k \in DOMAIN cache THEN <<cache[k]>> ELSE <<>>

\* A single-flight store: the first writer of a key wins.
CacheSetIfAbsent(k, v, timeout) ==
  IF k \in DOMAIN cache THEN cache
  ELSE [x \in DOMAIN cache \cup {k} |->
          IF x = k THEN [val |-> v, expires |-> Expires(timeout)] ELSE cache[x]]

\* cache.set(k, v, timeout=timeout)
CacheSet(k, v, timeout) ==
  [x \in DOMAIN cache \cup {k} |->
     IF x = k THEN [val |-> v, expires |-> Expires(timeout)] ELSE cache[x]]

CacheDelete(k) == [x \in DOMAIN cache \ {k} |-> cache[x]]

-----------------------------------------------------------------------------
(* State *)

InitLoc == [q |-> <<>>, u |-> <<>>, latest |-> FALSE, key |-> <<>>,
            result |-> NoResp]

\* History of a request, kept for the properties: the cache and engine
\* steps it has taken, the engine calls it made, how many hits its search
\* returned and the first of them, what the engine or the cache raised, the
\* entry stored under its key when it read the cache and the time of that
\* read, whether its answer came from the cache, the identifier it handed
\* to the engine or the search provider, the entry its cache.delete removed,
\* and whether another request deleted its key after it had missed.
InitHist == [steps |-> <<>>, calls |-> 0, searched |-> FALSE, nhits |-> 0,
             first |-> EmptyDict, raised |-> NoneVal, cacheRaised |-> FALSE,
             entry |-> <<>>, at |-> 0, fromCache |-> FALSE,
             passed |-> [via |-> "none", value |-> <<>>],
             deleted |-> <<>>, stale |-> FALSE]

\* No request has arrived, the cache is empty.
Fresh ==
  /\ now = 0
  /\ ticks = 0
  /\ cache = EmptyDict
  /\ pc = [p \in Procs |-> "idle"]
  /\ loc = [p \in Procs |-> InitLoc]
  /\ resp = [p \in Procs |-> NoResp]
  /\ hist = [p \in Procs |-> InitHist]

Init ==
  /\ route \in Routes
  /\ arg = NoneVal
  /\ out = NoneVal
  /\ Fresh

\* The request of p ends with response r.
Finish(p, r) ==
  /\ pc' = [pc EXCEPT ![p] = "done"]
  /\ resp' = [resp EXCEPT ![p] = r]

Goto(p, label) ==
  /\ pc' = [pc EXCEPT ![p] = label]
  /\ UNCHANGED resp

-----------------------------------------------------------------------------
(* The handlers *)

\* A force-refresh that forgets to invalidate.
AfterStartNoDelete(r, lt) == "get"

\* Where a handler goes after reading its parameters: a cached route with
\* 'latest' in request.args deletes the key first; the decorator of download
\* and the plain reads go straight to cache.get.
AfterStart(r, lt) == IF r \in ManualRoutes /\ lt THEN "delete" ELSE "get"

\* A request arrives: the handler reads its parameters and builds its key.
\* The routes without a cache check their identifiers at once.  The threads
\* are interchangeable: they are numbered in the order their requests arrive.
Start(p) ==
  /\ pc[p] = "idle"
  /\ \A o \in Procs : o < p => pc[o] # "idle"
  /\ \E args \in Requests(route) :
       LET a == Param1(route, args)
           b == Param2(route, args)
           lt == HasArg(args, "latest") IN
       /\ loc' = [loc EXCEPT ![p] = [q |-> a, u |-> b, latest |-> lt,
                                     key |-> CacheKey(route, args),
                                     result |-> NoResp]]
       /\ IF route \in UncachedRoutes
          THEN IF Missing(a, b)
               THEN Finish(p, Response(400, ErrorBody(MissingMessage(route))))
               ELSE Goto(p, "resolve")
          ELSE Goto(p, AfterStart(route, lt))
  /\ UNCHANGED <<arg, out, route, now, ticks, cache, hist>>

\* The request of p has missed the cache and is computing its result, or
\* has computed it and not stored it yet.
InFlight(p) == pc[p] \in {"resolve", "set"}

\* cache.delete(key) of a force-refresh request.
DeleteOk(p) ==
  /\ pc[p] = "delete"
  /\ cache' = CacheDelete(loc[p].key)
  /\ hist' = [o \in Procs |->
               IF o = p
               THEN [hist[p] EXCEPT !.steps = Append(@, "delete"),
                                    !.deleted = Stored(loc[p].key)]
               ELSE IF InFlight(o) /\ loc[o].key = loc[p].key
               THEN [hist[o] EXCEPT !.stale = TRUE]
               ELSE hist[o]]
  /\ Goto(p, "get")
  /\ UNCHANGED <<arg, out, route, now, ticks, loc>>

\* cache.delete(key) raises: no route guards the call.
DeleteFault(p) ==
  /\ pc[p] = "delete"
  /\ hist' = [hist EXCEPT ![p].cacheRaised = TRUE]
  /\ Finish(p, Unhandled)
  /\ UNCHANGED <<arg, out, route, now, ticks, cache, loc>>

\* The test a manual route applies to what cache.get returned.
IsHit(r, present, cached) ==
  present /\ (r \in NotNoneRoutes \/ Truthy(cached))

\* cache.get(key) of a manual route, and what follows without another
\* cache or engine call: the hit is returned, a missing identifier is
\* refused, home builds its constant payload.
GetManual(p) ==
  /\ pc[p] = "get"
  /\ route \in ManualRoutes
  /\ LET k == loc[p].key
         present == Live(k)
         cached == IF present THEN cache[k].val ELSE EmptyDict
         hit == IsHit(route, present, cached) IN
     /\ hist' = [hist EXCEPT ![p].steps = Append(@, "get"),
                             ![p].entry = Stored(k),
                             ![p].at = now,
                             ![p].fromCache = hit]
     /\ IF hit
        THEN Finish(p, Response(200, cached)) /\ UNCHANGED loc
        ELSE IF route = "home"
        THEN /\ loc' = [loc EXCEPT ![p].result = Response(200, HomeData)]
             /\ Goto(p, "set")
        ELSE IF Missing(loc[p].q, loc[p].u)
        THEN /\ Finish(p, Response(400, ErrorBody(MissingMessage(route))))
             /\ UNCHANGED loc
        ELSE Goto(p, "resolve") /\ UNCHANGED loc
  /\ UNCHANGED <<arg, out, route, now, ticks, cache>>

\* cache.get(key) raises: no route guards the call.
GetFault(p) ==
  /\ pc[p] = "get"
  /\ route \in ManualRoutes
  /\ hist' = [hist EXCEPT ![p].cacheRaised = TRUE]
  /\ Finish(p, Unhandled)
  /\ UNCHANGED <<arg, out, route, now, ticks, cache, loc>>

\* The read of @cache.cached on download: a stored response is returned as
\* it is; otherwise the view function runs, and its identifier check
\* produces the 400 response that the decorator is about to store.  The
\* decorator catches and logs a backend fault around its own get and set, so
\* the cache faults modelled are those of the calls the routes make.
GetDecorated(p) ==
  /\ pc[p] = "get"
  /\ route \in DecoratedRoutes
  /\ LET k == loc[p].key
         present == Live(k) IN
     /\ hist' = [hist EXCEPT ![p].steps = Append(@, "get"),
                             ![p].entry = Stored(k),
                             ![p].at = now,
                             ![p].fromCache = present]
     /\ IF present
        THEN Finish(p, cache[k].val) /\ UNCHANGED loc
        ELSE IF Missing(loc[p].q, loc[p].u)
        THEN /\ loc' = [loc EXCEPT ![p].result =
                          Response(400, ErrorBody(MissingMessage(route)))]
             /\ Goto(p, "set")
        ELSE Goto(p, "resolve") /\ UNCHANGED loc
  /\ UNCHANGED <<arg, out, route, now, ticks, cache>>

\* Dispatch on the url first: a search is used only without a url.
EngineArgUrlFirst(r, q, u) ==
  IF r \in SearchRoutes /\ u = <<>>
  THEN [via |-> "search", value |-> q]
  ELSE IF r \in IdRoutes THEN [via |-> "url", value |-> StrOr(q, u)]
  ELSE [via |-> "url", value |-> u]

\* What a handler hands to the engine: "if search_query:" / "if q:" comes
\* first, so a search route with a non-empty query searches for it; the url
\* is resolved otherwise.  The channel and playlist routes resolve
\* "cid or cu", the other routes their url.
EngineArg(r, q, u) ==
  IF r \in SearchRoutes /\ q # <<>>
  THEN [via |-> "search", value |-> q]
  ELSE IF r \in IdRoutes THEN [via |-> "url", value |-> StrOr(q, u)]
  ELSE [via |-> "url", value |-> u]

\* What the handler of p hands to the engine.
Passed(p) == EngineArg(route, loc[p].q, loc[p].u)

\* The request of p resolves through a search (q / search_query is truthy).
UsesSearch(p) == EngineArg(route, loc[p].q, loc[p].u).via = "search"

\* The view function of p has computed response r with the engine's help:
\* a cached route goes on to store it, the others return it.  A manual
\* route stores only what it computed successfully; the decorator of
\* download stores whatever the view function returned.
Computed(p, r) ==
  IF route \in DecoratedRoutes \/ (route \in ManualRoutes /\ r.status = 200)
  THEN /\ loc' = [loc EXCEPT ![p].result = r]
       /\ Goto(p, "set")
  ELSE /\ Finish(p, r)
       /\ UNCHANGED loc

\* The engine or the search provider raises.
ResolveFault(p) ==
  /\ pc[p] = "resolve"
  /\ \E m \in EngineFaults :
       /\ hist' = [hist EXCEPT ![p].steps = Append(@, "resolve"),
                               ![p].calls = @ + 1,
                               ![p].passed = Passed(p),
                               ![p].raised = m]
       /\ IF route \in GuardedRoutes
          THEN Finish(p, Response(500, ErrorBody(m)))
          ELSE Finish(p, Unhandled)
  /\ UNCHANGED <<arg, out, route, now, ticks, cache, loc>>

\* api_fast_meta with a search: YoutubeSearch(q, max_results=1).to_dict().
ResolveYoutubeSearch(p) ==
  /\ pc[p] = "resolve"
  /\ route = "api_fast_meta"
  /\ UsesSearch(p)
  /\ \E results \in YoutubeSearch(1) :
       /\ hist' = [hist EXCEPT ![p].steps = Append(@, "resolve"),
                               ![p].calls = @ + 1,
                               ![p].passed = Passed(p),
                               ![p].searched = TRUE,
                               ![p].nhits = Len(results),
                               ![p].first =
                                 IF results = <<>> THEN EmptyDict ELSE Head(results)]
       /\ IF results = <<>>
          THEN Computed(p, Response(404, ErrorBody("No results")))
          ELSE LET vid == FirstEntry(results) IN
               IF ~({"title", "url_suffix"} \subseteq DOMAIN vid)
               THEN Computed(p, Response(500, ErrorBody("'title'")))
               ELSE IF HitDuration(vid) = ValueError
               THEN Computed(p, Response(500, ErrorBody(IntErrorMessage)))
               ELSE Computed(p, Response(200, FastMetaHit(vid)))
  /\ UNCHANGED <<arg, out, route, now, ticks, cache>>

\* extract_info(url, search_query) with a search query.
ResolveSearch(p) ==
  /\ pc[p] = "resolve"
  /\ route \in ExtractInfoRoutes
  /\ UsesSearch(p)
  /\ \E entries \in SearchEntries :
       /\ hist' = [hist EXCEPT ![p].steps = Append(@, "resolve"),
                               ![p].calls = @ + 1,
                               ![p].passed = Passed(p),
                               ![p].searched = TRUE,
                               ![p].nhits = Len(entries),
                               ![p].first =
                                 IF entries = <<>> THEN EmptyDict ELSE Head(entries)]
       /\ IF entries = <<>>
          THEN Computed(p, Response(404, ErrorBody("No search results")))
          ELSE Computed(p, Response(200, Payload(route, FirstEntry(entries))))
  /\ UNCHANGED <<arg, out, route, now, ticks, cache>>

\* ydl.extract_info(identifier, download=False) on a url or an id.
ResolveUrl(p) ==
  /\ pc[p] = "resolve"
  /\ ~UsesSearch(p)
  /\ \E info \in Infos :
       /\ hist' = [hist EXCEPT ![p].steps = Append(@, "resolve"),
                               ![p].calls = @ + 1,
                               ![p].passed = Passed(p)]
       /\ Computed(p, Response(200, Payload(route, info)))
  /\ UNCHANGED <<arg, out, route, now, ticks, cache>>

\* cache.set(key, data) of a manual route, then the return.
SetManual(p) ==
  /\ pc[p] = "set"
  /\ route \in ManualRoutes
  /\ cache' = CacheSet(loc[p].key, loc[p].result.body, CACHE_DEFAULT_TIMEOUT)
  /\ hist' = [hist EXCEPT ![p].steps = Append(@, "set")]
  /\ Finish(p, loc[p].result)
  /\ UNCHANGED <<arg, out, route, now, ticks, loc>>

\* cache.set(key, data) raises: inside try/except the handler answers 500
\* with the message, elsewhere the exception leaves the handler.
SetFault(p) ==
  /\ pc[p] = "set"
  /\ route \in ManualRoutes
  /\ hist' = [hist EXCEPT ![p].cacheRaised = TRUE]
  /\ IF route \in GuardedRoutes
     THEN Finish(p, Response(500, ErrorBody(CacheFaultMessage)))
     ELSE Finish(p, Unhandled)
  /\ UNCHANGED <<arg, out, route, now, ticks, cache, loc>>

\* The write of @cache.cached(timeout=STREAM_TIMEOUT) on download: whatever
\* the view function returned is stored, then returned.
SetDecorated(p) ==
  /\ pc[p] = "set"
  /\ route \in DecoratedRoutes
  /\ cache' = CacheSet(loc[p].key, loc[p].result, STREAM_TIMEOUT)
  /\ hist' = [hist EXCEPT ![p].steps = Append(@, "set")]
  /\ Finish(p, loc[p].result)
  /\ UNCHANGED <<arg, out, route, now, ticks, loc>>

\* Time passes: a second, or just under the stream timeout.
Tick ==
  /\ ticks < MaxTicks
  /\ \E d \in {1, STREAM_TIMEOUT - 1} : now' = now + d
  /\ ticks' = ticks + 1
  /\ UNCHANGED <<arg, out, route, cache, pc, loc, resp, hist>>

\* No request is in flight.
Quiescent == \A p \in Procs : pc[p] \in {"idle", "done"}

\* Concurrent requests; the clock stands still.
Next ==
  \E p \in Procs :
    \/ Start(p)
    \/ DeleteOk(p)
    \/ DeleteFault(p)
    \/ GetManual(p)
    \/ GetFault(p)
    \/ GetDecorated(p)
    \/ ResolveFault(p)
    \/ ResolveYoutubeSearch(p)
    \/ ResolveSearch(p)
    \/ ResolveUrl(p)
    \/ SetManual(p)
    \/ SetFault(p)
    \/ SetDecorated(p)

Spec == Init /\ [][Next]_vars

\* One request after the other, with time passing between them once the
\* cache holds an entry.
NextTTL ==
  \/ \E p \in Procs :
       \/ Quiescent /\ Start(p)
       \/ DeleteOk(p)
       \/ DeleteFault(p)
       \/ GetManual(p)
       \/ GetFault(p)
       \/ GetDecorated(p)
       \/ ResolveFault(p)
       \/ ResolveYoutubeSearch(p)
       \/ ResolveSearch(p)
       \/ ResolveUrl(p)
       \/ SetManual(p)
       \/ SetFault(p)
       \/ SetDecorated(p)
  \/ Quiescent /\ DOMAIN cache # {} /\ Tick

SpecTTL == Init /\ [][NextTTL]_vars

-----------------------------------------------------------------------------
(* build_formats_list alone: one call on a record the engine may return.   *)

MaxFormats == 2

\* The values a raw format carries under a field, when it carries the field.
FieldValues(k) ==
  CASE k = "url" -> {"", "u"}
    [] k = "vcodec" -> {"none", "h264"}
    [] k = "acodec" -> {"none", "aac"}
    [] OTHER -> {}

\* Raw formats: each of url, vcodec, acodec is absent or has a value.
RawFormats ==
  UNION {{f \in [D -> {"", "u", "none", "h264", "aac"}] :
            \A k \in D : f[k] \in FieldValues(k)} :
         D \in SUBSET {"url", "vcodec", "acodec"}}

\* Resolved records: without a 'formats' field, or with a list of formats.
FormatInfos ==
  {EmptyDict} \cup {[formats |-> fs] : fs \in ListsOf(RawFormats, MaxFormats)}

InitFormats ==
  /\ route = NoneVal
  /\ arg \in FormatInfos
  /\ out = NoneVal
  /\ Fresh

\* fmts = build_formats_list(info)
CallBuildFormats ==
  /\ out = NoneVal
  /\ out' = build_formats_list(arg)
  /\ UNCHANGED <<arg, route, now, ticks, cache, pc, loc, resp, hist>>

NextFormats == CallBuildFormats

SpecFormats == InitFormats /\ [][NextFormats]_vars

-----------------------------------------------------------------------------
(* to_iso_duration alone: one call on a duration string.                   *)

MaxDurationLen == 5

\* The characters of the duration strings: digits, a letter, the separator.
DurationChars == {"0", "1", "a", ":"}

DurationStrings == ListsOf(DurationChars, MaxDurationLen)

InitDuration ==
  /\ route = NoneVal
  /\ arg \in DurationStrings
  /\ out = NoneVal
  /\ Fresh

\* to_iso_duration(duration_str)
CallToIsoDuration ==
  /\ out = NoneVal
  /\ out' = to_iso_duration(arg)
  /\ UNCHANGED <<arg, route, now, ticks, cache, pc, loc, resp, hist>>

NextDuration == CallToIsoDuration

SpecDuration == InitDuration /\ [][NextDuration]_vars

-----------------------------------------------------------------------------
(* The key construction alone: the keys of two requests to one route.      *)

CachedRoutes == ManualRoutes \cup DecoratedRoutes

InitKeys ==
  /\ route \in CachedRoutes
  /\ arg \in KeyRequests(route) \X KeyRequests(route)
  /\ out = NoneVal
  /\ Fresh

\* key = f"...:{q}:{u}" for each of the two requests.
CallCacheKey ==
  /\ out = NoneVal
  /\ out' = <<CacheKey(route, arg[1]), CacheKey(route, arg[2])>>
  /\ UNCHANGED <<arg, route, now, ticks, cache, pc, loc, resp, hist>>

NextKeys == CallCacheKey

SpecKeys == InitKeys /\ [][NextKeys]_vars

-----------------------------------------------------------------------------
(* Properties *)

Done(p) == pc[p] = "done"
Started(p) == pc[p] # "idle"

\* The requests that carry the force-refresh flag, 'latest'.
ForceRefresh(p) == Started(p) /\ loc[p].latest

\* s is an initial part of t.
IsPrefix(s, t) == Len(s) <= Len(t) /\ s = SubSeq(t, 1, Len(s))

\* The places of step x in the history of p.
Places(p, x) == {i \in 1..Len(hist[p].steps) : hist[p].steps[i] = x}

\* C1: on a manually cached route a request that carries 'latest' is never
\* answered with a payload read from the cache, whatever the other requests
\* for its key do meanwhile.
C1_ForceRefreshNeverReadsCache ==
  \A p \in Procs :
    (route \in ManualRoutes /\ ForceRefresh(p) /\ Done(p))
      => ~hist[p].fromCache

\* C2: on /download a request that carries 'latest' invalidates the stored
\* entry, recomputes and stores the new result; it is never answered from a
\* previously cached response.
C2_DownloadLatestRecomputes ==
  \A p \in Procs :
    (route = "download" /\ ForceRefresh(p) /\ Done(p))
      => ~hist[p].fromCache

RefreshOrder(r) ==
  IF r = "home" THEN <<"delete", "get", "set">>
  ELSE <<"delete", "get", "resolve", "set">>

C4_StoredPayloadIsServed ==
  \A p \in Procs :
    (/\ route \in ManualRoutes
     /\ Done(p)
     /\ ~loc[p].latest
     /\ hist[p].entry # <<>>)
      => /\ resp[p] = Response(200, hist[p].entry[1].val)
         /\ hist[p].calls = 0

\* The routes the TTL policy calls stream / format-listing routes.
StreamRoutes == {"download", "api_audio", "api_video"}

\* C5: an entry of a non-stream route never expires; every stream route
\* stores its response with a TTL of 5 hours, and a later request is served
\* the stored response while that window lasts and misses once it is over.
C5_TTLPolicy ==
  /\ route \notin StreamRoutes =>
       /\ \A k \in DOMAIN cache : cache[k].expires = 0
       /\ \A p \in Procs :
            (Done(p) /\ ~loc[p].latest /\ hist[p].entry # <<>>
               /\ Truthy(hist[p].entry[1].val))
              => hist[p].fromCache
  /\ route \in StreamRoutes =>
       \A p \in Procs :
         /\ (Done(p) /\ resp[p].status = 200 /\ ~hist[p].fromCache)
              => /\ loc[p].key \in DOMAIN cache
                 /\ cache[loc[p].key].expires >= hist[p].at + STREAM_TIMEOUT
                 /\ cache[loc[p].key].expires <= now + STREAM_TIMEOUT
         /\ (Done(p) /\ hist[p].entry # <<>>)
              => (hist[p].fromCache <=> hist[p].at < hist[p].entry[1].expires)

\* C6: two requests to the same route with the same trimmed identifier
\* values get the same cache key.
C6_KeyDependsOnTrimmedIdentifiersOnly ==
  \A p1, p2 \in Procs :
    (/\ Started(p1)
     /\ Started(p2)
     /\ Strip(loc[p1].q) = Strip(loc[p2].q)
     /\ Strip(loc[p1].u) = Strip(loc[p2].u))
      => loc[p1].key = loc[p2].key

\* C7: a request with both identifiers absent or empty is answered 400
\* without an engine call, and no entry exists under the key of such a
\* request.
C7_MissingIdentifier ==
  /\ \A p \in Procs :
       (/\ route # "home"
        /\ Done(p)
        /\ Missing(loc[p].q, loc[p].u)
        /\ ~hist[p].cacheRaised)
         => resp[p].status = 400 /\ hist[p].calls = 0
  /\ \A args \in Requests(route) :
       (route # "home" /\ Missing(Param1(route, args), Param2(route, args)))
         => CacheKey(route, args) \notin DOMAIN cache

\* C8: an engine fault ends the request with status 500 and a body that
\* carries the engine's message; it does not leave the handler unhandled.
C8_EngineFaultSurfaced ==
  \A p \in Procs :
    (Done(p) /\ hist[p].raised # NoneVal)
      => resp[p] = Response(500, ErrorBody(hist[p].raised))

\* C9: a fault of cache.get, cache.set or cache.delete never fails the
\* request: a payload that was computed is returned with status 200.
C9_CacheFaultNeverFails ==
  \A p \in Procs :
    (Done(p) /\ hist[p].cacheRaised)
      => /\ resp[p].handled
         /\ resp[p].body # ErrorBody(CacheFaultMessage)
         /\ loc[p].result.status = 200 => resp[p] = loc[p].result

\* What a route answers for the record a search resolved to.
SearchPayload(r, hit) ==
  IF r = "api_fast_meta" THEN FastMetaHit(hit) ELSE Payload(r, hit)

\* C10: a search with zero hits ends the request with status 404; with at
\* least one hit the request never ends 404, and the payload it computes
\* and returns is built from the first hit.
C10_SearchFirstHitOrNotFound ==
  \A p \in Procs :
    hist[p].searched =>
      /\ (hist[p].nhits = 0 /\ pc[p] = "set") => loc[p].result.status = 404
      /\ (hist[p].nhits = 0 /\ Done(p)) => resp[p].status = 404
      /\ (hist[p].nhits > 0 /\ pc[p] = "set")
           => loc[p].result = Response(200, SearchPayload(route, hist[p].first))
      /\ (hist[p].nhits > 0 /\ Done(p))
           => /\ resp[p].status # 404
              /\ resp[p].status = 200
                   => resp[p].body = SearchPayload(route, hist[p].first)

\* One search found nothing and was answered 404, another found several
\* hits and was answered with a payload.
C10_Witness ==
  \E p, o \in Procs :
    /\ Done(p) /\ hist[p].searched /\ hist[p].nhits = 0
    /\ resp[p].status = 404
    /\ Done(o) /\ hist[o].searched /\ hist[o].nhits = MaxHits
    /\ resp[o].status = 200

\* The request of p has just called set.
JustSet(p) == hist'[p].steps = Append(hist[p].steps, "set")

\* What the set of p stores: the payload on a manual route, the response of
\* the view function under the decorator.
OwnResult(p) ==
  IF route \in DecoratedRoutes THEN loc[p].result ELSE loc[p].result.body

\* C11: there is no single-flight guard: whatever the other requests for
\* the same key are doing or have stored, a request that computed a result
\* writes that result with set, and the entry under its key holds it.
C11_EachWritesItsOwnResult ==
  [][\A p \in Procs :
       JustSet(p) =>
         /\ route \in ManualRoutes \ {"home"} => hist[p].calls = 1
         /\ loc[p].key \in DOMAIN cache'
         /\ cache'[loc[p].key].val = OwnResult(p)]_vars

\* Two requests without the flag missed the same key, both invoked the
\* resolver, got different records, and both wrote: the entry is the later
\* writer's.
C11_Witness ==
  \E p, o \in Procs :
    /\ p # o
    /\ route \in ManualRoutes
    /\ loc[p].key = loc[o].key
    /\ ~loc[p].latest /\ ~loc[o].latest
    /\ hist[p].steps = <<"get", "resolve", "set">>
    /\ hist[o].steps = <<"get", "resolve", "set">>
    /\ resp[p].body # resp[o].body
    /\ cache[loc[p].key].val = resp[p].body

\* A codec is present: the field is there and is not the sentinel 'none'.
CodecPresent(f, c) == c \in DOMAIN f /\ f[c] # "none"

\* A format has a usable url.
UsableUrl(f) == "url" \in DOMAIN f /\ f["url"] # ""

RECURSIVE KeptFormats(_)
KeptFormats(fs) ==
  IF fs = <<>> THEN <<>>
  ELSE LET f == Head(fs)
           v == CodecPresent(f, "vcodec")
           a == CodecPresent(f, "acodec") IN
       (IF UsableUrl(f) /\ (v \/ a)
        THEN <<[format_id |-> Get(f, "format_id"),
                kind |-> IF v /\ a THEN "progressive"
                         ELSE IF v THEN "video-only" ELSE "audio-only",
                url |-> f["url"]]>>
        ELSE <<>>) \o KeptFormats(Tail(fs))

\* C12: build_formats_list returns, in source order, exactly the formats
\* with a usable url and at least one codec that is present and not 'none',
\* classified by the codecs present; a format whose codecs are both absent
\* or 'none' is dropped.
C12_FormatsKeptAndClassified ==
  out # NoneVal => out = KeptFormats(GetOr(arg, "formats", <<>>))

\* s is S, M:S or H:M:S with every part an unsigned integer.
WellFormedDuration(s) ==
  /\ s # <<>>
  /\ Len(Split(s, ":")) \in 1..3
  /\ \A i \in 1..Len(Split(s, ":")) : IsDigits(Split(s, ":")[i])

\* C13: to_iso_duration never raises, and every input that is not S, M:S
\* or H:M:S of unsigned integers yields PT0S.
C13_DurationTotal ==
  out # NoneVal =>
    /\ out # ValueError
    /\ ~WellFormedDuration(arg) => out = <<"P", "T", "0", "S">>

\* The routes that answer a search with a metadata payload.
MetadataRoutes == {"api_all", "api_fast_meta"}

\* C14: when a search with one matching hit is answered with a payload,
\* the payload's duration is to_iso_duration of the hit's raw duration and
\* its formats are build_formats_list of the hit's raw formats.
C14_PayloadNormalised ==
  \A p \in Procs :
    (/\ route \in MetadataRoutes
     /\ Done(p)
     /\ hist[p].searched
     /\ hist[p].nhits = 1
     /\ resp[p].status = 200
     /\ ~hist[p].fromCache)
      => /\ {"duration", "formats"} \subseteq DOMAIN resp[p].body
         /\ resp[p].body.duration
              = to_iso_duration(GetOr(hist[p].first, "duration", <<>>))
         /\ resp[p].body.formats = build_formats_list(hist[p].first)

\* The request of p has called the engine or the search provider.
Resolved(p) == hist[p].calls > 0

\* C15: on the routes that take a search and a url, a request with a
\* non-empty search query hands the query alone to the engine or the search
\* provider, whether or not a url came with it; the url is handed over only
\* when the query is absent or empty.  One call is made at most.
C15_SearchBeforeUrl ==
  \A p \in Procs :
    (route \in SearchRoutes /\ Resolved(p))
      => /\ hist[p].calls = 1
         /\ loc[p].q # <<>> =>
              /\ hist[p].passed = [via |-> "search", value |-> loc[p].q]
              /\ hist[p].raised = NoneVal => hist[p].searched
         /\ loc[p].q = <<>> =>
              /\ hist[p].passed = [via |-> "url", value |-> loc[p].u]
              /\ ~hist[p].searched

\* A request that carried both a search query and a url was resolved
\* through the search and answered with the payload of its first hit.
C15_Witness ==
  \E p \in Procs :
    /\ route \in SearchRoutes
    /\ Done(p)
    /\ loc[p].q # <<>>
    /\ loc[p].u # <<>>
    /\ hist[p].passed.via = "search"
    /\ hist[p].searched
    /\ hist[p].nhits > 0
    /\ resp[p].status = 200

\* The trimmed identifiers of a request to route r.
Trimmed(r, args) == <<Strip(Param1(r, args)), Strip(Param2(r, args))>>

\* C16: two requests to a route whose trimmed identifiers differ get
\* different cache keys, also when the identifiers contain ':'.
C16_KeyInjective ==
  out # NoneVal =>
    (Trimmed(route, arg[1]) # Trimmed(route, arg[2]) => out[1] # out[2])

\* C17: every cache entry holds the result of a resolution that succeeded:
\* under the decorator a response with status 200, on a manual route a
\* payload and not an error body.
C17_OnlySuccessCached ==
  \A k \in DOMAIN cache :
    IF route \in DecoratedRoutes
    THEN cache[k].val.status = 200
    ELSE "error" \notin DOMAIN cache[k].val

\* The recomputation of p failed: the handler refused the request, the
\* search found nothing, or the engine raised.
RecomputeFailed(p) ==
  Done(p) /\ ~hist[p].fromCache /\ ~hist[p].cacheRaised /\ resp[p].status # 200

\* C18: with requests served one after the other, a force-refresh request
\* whose recomputation failed has left the entry that was stored under its
\* key in place.
C18_FailedRefreshKeepsEntry ==
  \A p \in Procs :
    (route \in ManualRoutes /\ ForceRefresh(p) /\ RecomputeFailed(p))
      => Stored(loc[p].key) = hist[p].deleted

\* The request of p was a force-refresh that completed successfully: it
\* deleted, recomputed and stored.
RefreshCompleted(p) ==
  /\ ForceRefresh(p)
  /\ Done(p)
  /\ resp[p].status = 200
  /\ Places(p, "delete") # {}
  /\ Places(p, "set") # {}

\* C19: once a force-refresh request for a key has completed successfully,
\* no request that had missed that key before the refresh deleted it
\* replaces the refreshed entry with the payload of its older computation.
C19_NoStaleOverwrite ==
  [][\A p, o \in Procs :
       (/\ p # o
        /\ route \in ManualRoutes
        /\ RefreshCompleted(p)
        /\ loc[o].key = loc[p].key
        /\ hist[o].stale
        /\ Stored(loc[p].key) = <<[val |-> resp[p].body, expires |-> 0]>>)
         => ~(JustSet(o) /\ cache'[loc[o].key].val # resp[p].body)]_vars

====
